---- MODULE Spec2Model ----
(***************************************************************************)
(* pyoz: the System object of pyoz/core.py (radial grids, the interaction  *)
(* tensor U_r and the Ornstein-Zernike solve loop).                        *)
(*                                                                         *)
(* Real numbers are modelled as a small floating-point format: a finite    *)
(* value is the integer v standing for v / Scale, magnitudes above MaxMag  *)
(* overflow to the infinities, and NaN / +Inf / -Inf follow the IEEE rules *)
(* numpy applies (x/0 = Inf, 0/0 = NaN, 0*Inf = NaN, NaN < x is false).    *)
(* Every product and quotient is rounded towards zero to a multiple of     *)
(* 1 / Scale, as a float operation is rounded to a representable value.    *)
(***************************************************************************)
EXTENDS Integers, Sequences, FiniteSets, TLC

VARIABLES
    sys,      \* the System object: its fields
    pc,       \* where the running solve call stands: "idle", "loop", "post"
    frame,    \* the local variables of the running solve call
    guess,    \* the caller's initial_e_r array of the last solve call (or None)
    log,      \* the per-iteration progress records of the last solve call
    last,     \* the last call made on the System and how it ended
    ncalls,   \* number of set_interaction / remove_interaction calls so far
    nsolves,  \* number of solve calls so far
    pot       \* a LennardJones potential object: its fields

vars == <<sys, pc, frame, guess, log, last, ncalls, nsolves, pot>>
solve_vars == <<pc, frame, guess, log, nsolves>>

(* ------------------------------ bounds -------------------------------- *)
Scale == 100             \* resolution of the number format: 1.0 is Scale
MaxMag == 400 * Scale    \* largest finite magnitude (400.0)
MaxPoints == 2           \* grids of 1 .. MaxPoints points (tensor model)
MaxIdx == 2              \* component indices 0 .. MaxIdx
MaxCalls == 2            \* set_interaction / remove_interaction calls per run
MaxGridPoints == 11      \* n_points keyword 1 .. MaxGridPoints (grid model)
MaxExp == 2              \* n_points_exp keyword 1 .. MaxExp
MaxSolveIdx == 1         \* component indices 0 .. MaxSolveIdx (solve model)
MaxIter == 2             \* max_iter 0 .. MaxIter
MaxSolves == 2           \* solve calls per run (configuration model)
MaxComponents == 3       \* components 1 .. MaxComponents (potential model)
MaxPotCalls == 4         \* add_component / add_binary_interaction calls per run

(* ------------------------- number format ------------------------------ *)
PInf == MaxMag + 1
NInf == -(MaxMag + 1)
NaN == MaxMag + 2

IsNaN(x) == x = NaN
IsInf(x) == x = PInf \/ x = NInf
IsFinite(x) == ~IsNaN(x) /\ ~IsInf(x)

Abs(x) == IF x < 0 THEN -x ELSE x
Sgn(x) == IF x < 0 THEN -1 ELSE IF x > 0 THEN 1 ELSE 0
Max(a, b) == IF a >= b THEN a ELSE b
\* integer quotient rounded towards zero
Quot(a, b) == Sgn(a) * Sgn(b) * (Abs(a) \div Abs(b))

\* overflow of a finite result to the infinities
FNorm(x) == IF x > MaxMag THEN PInf ELSE IF x < -MaxMag THEN NInf ELSE x

FromInt(n) == FNorm(n * Scale)

FNeg(a) == IF IsNaN(a) THEN NaN ELSE -a

FAdd(a, b) ==
    IF IsNaN(a) \/ IsNaN(b) THEN NaN
    ELSE IF IsInf(a) THEN (IF IsInf(b) /\ b # a THEN NaN ELSE a)
    ELSE IF IsInf(b) THEN b
    ELSE FNorm(a + b)

FSub(a, b) == FAdd(a, FNeg(b))

FMul(a, b) ==
    IF IsNaN(a) \/ IsNaN(b) THEN NaN
    ELSE IF IsInf(a) \/ IsInf(b)
         THEN (IF a = 0 \/ b = 0 THEN NaN
               ELSE IF Sgn(a) * Sgn(b) > 0 THEN PInf ELSE NInf)
    ELSE FNorm(Quot(a * b, Scale))

\* numpy array division: no exception, x/0 = +-Inf, 0/0 = NaN
FDiv(a, b) ==
    IF IsNaN(a) \/ IsNaN(b) THEN NaN
    ELSE IF IsInf(a) THEN (IF IsInf(b) THEN NaN
                           ELSE IF Sgn(a) * (IF b < 0 THEN -1 ELSE 1) > 0
                                THEN PInf ELSE NInf)
    ELSE IF IsInf(b) THEN 0
    ELSE IF b = 0 THEN (IF a = 0 THEN NaN ELSE IF a > 0 THEN PInf ELSE NInf)
    ELSE FNorm(Quot(a * Scale, b))

\* a float times / divided by a Python int
FMulInt(a, n) == FMul(a, FromInt(n))
FDivInt(a, n) == FDiv(a, FromInt(n))

\* a < b on floats: false as soon as one side is NaN
FLt(a, b) == ~IsNaN(a) /\ ~IsNaN(b) /\ a < b

\* np.pi
Pi == (355 * Scale) \div 113

(* ---------------------------- sequences ------------------------------- *)
Range0(n) == 0 .. (n - 1)
\* the function f itself, with its values computed once
Eager(f) == f @@ << >>
\* the sequence f(1), .., f(n)
Vec(n, f(_)) == Eager([x \in 1 .. n |-> f(x)])
Zeros(n) == Vec(n, LAMBDA x : 0)
\* Python None; a tensor or a matrix that is set is never empty
None == << >>

(* ------------------------------ grid ---------------------------------- *)
\* numpy.linspace(start, stop, num) with the endpoint included
linspace(start, stop, num) ==
    LET div == num - 1
        delta == FSub(stop, start)
        step == FDivInt(delta, div)
        y(x) == IF div > 0
                THEN (IF step = 0 THEN FMul(FDivInt(FromInt(x), div), delta)
                      ELSE FMulInt(step, x))
                ELSE FMulInt(delta, x)
    IN  Vec(num, LAMBDA x :
            IF num > 1 /\ x = num THEN stop ELSE FAdd(y(x - 1), start))

\* System.__init__: the fields of a new System. A keyword that is absent or
\* falsy is 0 here (`kwargs.get(..) or default`).
SystemFields(n_points_kw, n_points_exp_kw, dr_kw, T_kw) ==
    LET n_points_exp == IF n_points_exp_kw = 0 THEN 12 ELSE n_points_exp_kw
        n0 == IF n_points_kw = 0 THEN 2 ^ n_points_exp ELSE n_points_kw
        n == n0 - 1
        d == IF dr_kw = 0 THEN Scale \div 100 ELSE dr_kw
        max_r == FMulInt(d, n)
        dkv == FDiv(Pi, max_r)
    IN  [ T |-> IF T_kw = 0 THEN FromInt(1) ELSE T_kw,
          n_points |-> n,
          dr |-> d,
          dk |-> dkv,
          r |-> linspace(d, FSub(FMulInt(d, n), d), n),
          k |-> linspace(dkv, FSub(FMulInt(dkv, n), dkv), n),
          U_r |-> [shape |-> <<0, 0, n>>, data |-> << >>],
          rho |-> None,
          g_r |-> None, h_r |-> None, c_r |-> None, e_r |-> None, S_k |-> None ]

\* `np.pi / max_r` is a division of Python floats: it raises when max_r is 0.0
InitRaises(n_points_kw, n_points_exp_kw, dr_kw) ==
    LET f == SystemFields(n_points_kw, n_points_exp_kw, dr_kw, 0)
    IN  FMulInt(f.dr, f.n_points) = 0

(* ------------------------ interaction tensor --------------------------- *)
n_components(s) == s.U_r.shape[1]

\* position of element [a, b, p] in the C-ordered buffer of an array of `shape`
FlatIdx(shape, a, b, p) == (a * shape[2] + b) * shape[3] + p + 1

\* U_r[a, b, p]
U_at(U, a, b, p) == U.data[FlatIdx(U.shape, a, b, p)]
\* U_r[a, b]
U_row(U, a, b) == Vec(U.shape[3], LAMBDA p : U_at(U, a, b, p - 1))

\* ndarray.resize(new_shape): the buffer is reallocated in place; the elements
\* keep their position in the flat buffer and the tail is filled with zeros
resize(U, new_shape) ==
    LET size == new_shape[1] * new_shape[2] * new_shape[3]
    IN  [shape |-> new_shape,
         data |-> Vec(size, LAMBDA x :
                      IF x <= Len(U.data) THEN U.data[x] ELSE 0)]

\* U_r[a, b] = potential
U_assign(U, a, b, potential) ==
    [U EXCEPT !.data =
        Vec(Len(U.data), LAMBDA x :
            IF \E p \in Range0(U.shape[3]) : x = FlatIdx(U.shape, a, b, p)
            THEN potential[x - FlatIdx(U.shape, a, b, 0) + 1]
            ELSE U.data[x])]

\* the growth step of System.set_interaction
set_interaction_grow(U, comp1_idx, comp2_idx) ==
    LET n == U.shape[1]
        n_bigger == Max(comp1_idx, comp2_idx) - U.shape[1] + 1
    IN  IF comp1_idx >= n \/ comp2_idx >= n
        THEN resize(U, <<U.shape[1] + n_bigger,
                         U.shape[2] + n_bigger, U.shape[3]>>)
        ELSE U

\* the body of System.set_interaction after the length check
set_interaction_body(U, comp1_idx, comp2_idx, potential, symmetric) ==
    LET grown == set_interaction_grow(U, comp1_idx, comp2_idx)
        first == U_assign(grown, comp1_idx, comp2_idx, potential)
    IN  IF symmetric /\ comp1_idx # comp2_idx
        THEN U_assign(first, comp2_idx, comp1_idx, potential)
        ELSE first

\* the record of the last call made on the System and how it ended
Call(op, err, i, j, values, symmetric) ==
    [op |-> op, err |-> err, i |-> i, j |-> j, values |-> values,
     symmetric |-> symmetric, args |-> << >>]
NoCall == Call("none", "none", 0, 0, << >>, FALSE)

Idle == pc = "idle"

\* no solve call is running
NoFrame ==
    [closure |-> "", kwargs |-> [g_r_ref |-> None, e_r_ref |-> None,
                                 U_r_ref |-> None],
     mix_param |-> 0, tol |-> 0, status_updates |-> FALSE, max_iter |-> 0,
     n_iter |-> 0, e_r |-> None, aliased |-> FALSE, S_k |-> None,
     n_closure |-> 0]

(* --------------------------- Potential --------------------------------- *)
\* the parameters of LennardJones: lj_func(r, eps, sig)
ParameterNames == <<"eps", "sig">>
n_parameters == Len(ParameterNames)
\* no mixing rule for any parameter
NoRules == [n \in 1 .. n_parameters |-> ""] @@ << >>

\* Potential.__init__: rules[n] is the mixing rule of parameter n ("" for
\* none), index and parameters are the rows of the parameters DataFrame
PotentialFields(rules) ==
    [rules |-> rules,
     index |-> << >>,
     parameters |-> << >>,
     parm_ij |-> Vec(n_parameters, LAMBDA n : <<<<0>>>>)]

\* set_interaction with the length check made after the growth
set_interaction_late_check(comp1_idx, comp2_idx, potential, symmetric) ==
    /\ Idle
    /\ ncalls < MaxCalls
    /\ ncalls' = ncalls + 1
    /\ IF Len(potential) # sys.n_points
       THEN /\ last' = Call("set_interaction", "PyozError: length",
                            comp1_idx, comp2_idx, potential, symmetric)
            /\ sys' = [sys EXCEPT !.U_r =
                         set_interaction_grow(sys.U_r, comp1_idx, comp2_idx)]
       ELSE /\ sys' = [sys EXCEPT !.U_r =
                         set_interaction_body(sys.U_r, comp1_idx, comp2_idx,
                                              potential, symmetric)]
            /\ last' = Call("set_interaction", "none",
                            comp1_idx, comp2_idx, potential, symmetric)
    /\ UNCHANGED <<solve_vars, pot>>

\* System.set_interaction
set_interaction(comp1_idx, comp2_idx, potential, symmetric) ==
    /\ Idle
    /\ ncalls < MaxCalls
    /\ ncalls' = ncalls + 1
    /\ IF Len(potential) # sys.n_points
       THEN /\ last' = Call("set_interaction", "PyozError: length",
                            comp1_idx, comp2_idx, potential, symmetric)
            /\ UNCHANGED sys
       ELSE /\ sys' = [sys EXCEPT !.U_r =
                         set_interaction_body(sys.U_r, comp1_idx, comp2_idx,
                                              potential, symmetric)]
            /\ last' = Call("set_interaction", "none",
                            comp1_idx, comp2_idx, potential, symmetric)
    /\ UNCHANGED <<solve_vars, pot>>

\* a remove_interaction that drops the last component instead of raising
remove_interaction_shrinks(comp1_idx, comp2_idx) ==
    /\ Idle
    /\ ncalls < MaxCalls
    /\ ncalls' = ncalls + 1
    /\ last' = Call("remove_interaction", "none", comp1_idx, comp2_idx,
                    << >>, FALSE)
    /\ sys' = [sys EXCEPT !.U_r =
                 IF sys.U_r.shape[1] = 0 THEN sys.U_r
                 ELSE resize(sys.U_r, <<sys.U_r.shape[1] - 1,
                                        sys.U_r.shape[2] - 1, sys.U_r.shape[3]>>)]
    /\ UNCHANGED <<solve_vars, pot>>

\* System.remove_interaction
remove_interaction(comp1_idx, comp2_idx) ==
    /\ Idle
    /\ ncalls < MaxCalls
    /\ ncalls' = ncalls + 1
    /\ last' = Call("remove_interaction", "NotImplementedError",
                    comp1_idx, comp2_idx, << >>, FALSE)
    /\ UNCHANGED <<sys, solve_vars, pot>>

(* --------------------- the interaction tensor alone -------------------- *)
\* potential arrays handed to set_interaction on a grid of P points: 1.0 or
\* 2.0 at every point, so that a misplaced row shows, and one a point too long
PotentialArrays(P) ==
    { Vec(P, LAMBDA p : FromInt(1)), Vec(P, LAMBDA p : FromInt(2)),
      Vec(P + 1, LAMBDA p : FromInt(1)) }

InitU ==
    /\ \E n \in 1 .. MaxPoints : sys = SystemFields(n + 1, 0, Scale, 0)
    /\ pc = "idle"
    /\ pot = PotentialFields(NoRules)
    /\ frame = NoFrame
    /\ guess = None
    /\ log = << >>
    /\ nsolves = 0
    /\ last = NoCall
    /\ ncalls = 0

NextU ==
    \/ \E i \in 0 .. MaxIdx, j \in 0 .. MaxIdx,
          v \in PotentialArrays(sys.n_points), s \in BOOLEAN :
          set_interaction(i, j, v, s)
    \/ \E i \in 0 .. MaxIdx, j \in 0 .. MaxIdx : remove_interaction(i, j)

SpecU == InitU /\ [][NextU]_vars

(* C1: a set_interaction call that grows U_r leaves it with max(i,j)+1       *)
(* components, every pair that existed before the call keeps its values at  *)
(* the same (a,b) index, and every new pair the call does not write is zero *)
SetStep ==
    /\ ncalls' = ncalls + 1
    /\ last'.op = "set_interaction"
    /\ last'.err = "none"
Written(a, b) ==
    \/ (a = last'.i /\ b = last'.j)
    \/ (last'.symmetric /\ a = last'.j /\ b = last'.i)
C1_GrowthPreservation ==
    [][ (SetStep /\ Max(last'.i, last'.j) >= n_components(sys)) =>
        LET old == n_components(sys)
            new == Max(last'.i, last'.j) + 1
        IN  /\ sys'.U_r.shape = <<new, new, sys.n_points>>
            /\ \A a \in Range0(new), b \in Range0(new) :
                  IF a < old /\ b < old
                  THEN U_row(sys'.U_r, a, b) = U_row(sys.U_r, a, b)
                  ELSE Written(a, b)
                       \/ U_row(sys'.U_r, a, b) = Zeros(sys.n_points) ]_vars

(* C2: after a symmetric set_interaction(i, j, values) the slots (i,j) and   *)
(* (j,i) both hold values; after an asymmetric one with i # j the slot      *)
(* (i,j) holds values and (j,i) is as it was, zero if the call created it   *)
C2_SymmetryOfInsertion ==
    [][ SetStep =>
        LET i == last'.i
            j == last'.j
            old == n_components(sys)
        IN  /\ U_row(sys'.U_r, i, j) = last'.values
            /\ last'.symmetric => U_row(sys'.U_r, j, i) = last'.values
            /\ (~last'.symmetric /\ i # j) =>
                  U_row(sys'.U_r, j, i) =
                     IF i < old /\ j < old THEN U_row(sys.U_r, j, i)
                     ELSE Zeros(sys.n_points) ]_vars

(* C3: set_interaction with an array whose length differs from n_points     *)
(* fails with the length error and leaves the System as it was; with a      *)
(* matching length it does not raise that error                             *)
C3_LengthCheckFirst ==
    [][ (ncalls' = ncalls + 1 /\ last'.op = "set_interaction") =>
        /\ (Len(last'.values) # sys.n_points) =>
              (last'.err = "PyozError: length" /\ sys' = sys)
        /\ (Len(last'.values) = sys.n_points) =>
              last'.err # "PyozError: length" ]_vars
C3_Witness ==
    /\ last.op = "set_interaction"
    /\ last.err = "PyozError: length"
    /\ Max(last.i, last.j) >= n_components(sys)
    /\ n_components(sys) > 0

(* ------------------------------ the grid ------------------------------- *)
\* System(**kwargs)
New(n_points_kw, n_points_exp_kw, dr_kw, T_kw) ==
    /\ Idle
    /\ IF InitRaises(n_points_kw, n_points_exp_kw, dr_kw)
       THEN /\ last' = Call("System", "ZeroDivisionError", n_points_kw,
                            n_points_exp_kw, <<dr_kw, T_kw>>, FALSE)
            /\ UNCHANGED sys
       ELSE /\ sys' = SystemFields(n_points_kw, n_points_exp_kw, dr_kw, T_kw)
            /\ last' = Call("System", "none", n_points_kw,
                            n_points_exp_kw, <<dr_kw, T_kw>>, FALSE)
    /\ UNCHANGED <<solve_vars, ncalls, pot>>

\* dr keywords: absent (0.01 by default), 0.25, 0.5, 1.0, 2.0
DrValues == {0, Scale \div 4, Scale \div 2, Scale, 2 * Scale}

\* the first System of the run is System(n_points=2, dr=1.0)
InitGrid ==
    /\ sys = SystemFields(2, 0, Scale, 0)
    /\ pc = "idle"
    /\ pot = PotentialFields(NoRules)
    /\ frame = NoFrame
    /\ guess = None
    /\ log = << >>
    /\ nsolves = 0
    /\ last = Call("System", "none", 2, 0, <<Scale, 0>>, FALSE)
    /\ ncalls = 0

NextGrid ==
    \E n \in 0 .. MaxGridPoints, e \in 1 .. MaxExp, d \in DrValues :
        New(n, e, d, 0)

SpecGrid == InitGrid /\ [][NextGrid]_vars

\* equality up to the rounding of the number format: each of the n steps of
\* a grid adds at most one unit of rounding
Close(a, b, n) == IsFinite(a) /\ IsFinite(b) /\ Abs(a - b) <= n

(* C9: a System has n_points real-space points r[x] = dr + x*dr and          *)
(* n_points reciprocal points k[x] = dk + x*dk, dk = pi / (n_points * dr)   *)
C9_GridConstruction ==
    (last.op = "System" /\ last.err = "none") =>
        /\ Len(sys.r) = sys.n_points
        /\ Len(sys.k) = sys.n_points
        /\ sys.dk = FDiv(Pi, FMulInt(sys.dr, sys.n_points))
        /\ \A x \in Range0(sys.n_points) :
              /\ Close(sys.r[x + 1], sys.dr + x * sys.dr, sys.n_points)
              /\ Close(sys.k[x + 1], sys.dk + x * sys.dk, sys.n_points)

(* ------------------------- tensors and matrices ------------------------ *)
\* an (n, n, P) array as t[i][j][p], indices from 1
Tensor3(n, P, f(_, _, _)) ==
    Vec(n, LAMBDA i : Vec(n, LAMBDA j : Vec(P, LAMBDA p : f(i, j, p))))
ConstTensor(n, P, v) == Tensor3(n, P, LAMBDA i, j, p : v)
Dim(t) == Len(t)
Points(t) == Len(t[1][1])
\* U_r as a tensor
U_tensor(U) ==
    Tensor3(U.shape[1], U.shape[3],
            LAMBDA i, j, p : U_at(U, i - 1, j - 1, p - 1))

RECURSIVE FSum(_)
FSum(xs) == IF xs = << >> THEN 0
            ELSE FAdd(FSum(SubSeq(xs, 1, Len(xs) - 1)), xs[Len(xs)])

RECURSIVE ISqrtBetween(_, _, _)
\* the largest s in lo .. hi with s * s <= v
ISqrtBetween(v, lo, hi) ==
    IF lo >= hi THEN lo
    ELSE LET mid == (lo + hi + 1) \div 2
         IN  IF mid * mid <= v THEN ISqrtBetween(v, mid, hi)
             ELSE ISqrtBetween(v, lo, mid - 1)

\* np.sqrt: NaN for a negative argument
FSqrt(x) ==
    IF IsNaN(x) \/ x < 0 THEN NaN
    ELSE IF x = PInf THEN PInf
    ELSE ISqrtBetween(x * Scale, 0, MaxMag)

\* np.exp, exact at 0 and at the infinities, elsewhere rounded from
\* 1 + x + x^2/2 + x^3/6 for x >= 0 and its reciprocal for x < 0
ExpPoly(x) ==
    FAdd(FAdd(FAdd(FromInt(1), x), FDivInt(FMul(x, x), 2)),
         FDivInt(FMul(FMul(x, x), x), 6))
FExp(x) ==
    IF IsNaN(x) THEN NaN
    ELSE IF x = PInf THEN PInf
    ELSE IF x = NInf THEN 0
    ELSE IF x >= 0 THEN ExpPoly(x)
    ELSE FDiv(FromInt(1), ExpPoly(-x))

\* sin(pi * m / M), rounded from Bhaskara's 16 x (1 - x) / (5 - 4 x (1 - x))
FSin(m, M) ==
    LET a == m % M
        half == (m % (2 * M)) < M
        v == Quot(16 * a * (M - a) * Scale, 5 * M * M - 4 * a * (M - a))
    IN  IF half THEN v ELSE -v

\* scipy.fftpack.dst(x, type=1) and idst(x, type=1), both unnormalised:
\* y[m] = 2 * sum_n x[n] * sin(pi (m+1) (n+1) / (N+1))
dst(x) ==
    Vec(Len(x), LAMBDA m :
        FMulInt(FSum(Vec(Len(x), LAMBDA n : FMul(x[n], FSin(m * n, Len(x) + 1)))),
                2))
idst(x) == dst(x)

(* ------------------------------ closures ------------------------------- *)
\* pyoz.closure.supported_closures: the registry of closure relations
supported_closures == {"HNC", "PY", "RHNC"}

\* HNC: c = exp(-U/T + e) - e - 1
hypernetted_chain(U, e, T) ==
    FSub(FSub(FExp(FAdd(FDiv(FNeg(U), T), e)), e), FromInt(1))
\* PY: c = exp(-U/T) (1 + e) - e - 1
percus_yevick(U, e, T) ==
    FSub(FSub(FMul(FExp(FDiv(FNeg(U), T)), FAdd(FromInt(1), e)), e), FromInt(1))
\* RHNC: c = g_ref exp(-(U - U_ref)/T + e - e_ref) - e - 1
reference_hypernetted_chain(U, e, T, g_ref, e_ref, U_ref) ==
    FSub(FSub(FMul(g_ref,
                   FExp(FSub(FAdd(FDiv(FNeg(FSub(U, U_ref)), T), e), e_ref))),
              e), FromInt(1))

\* closure(U_r, e_r, T, **kwargs): the direct correlation, element by element
closure(name, U, e, T, kwargs) ==
    Tensor3(Dim(e), Points(e), LAMBDA i, j, p :
        IF name = "HNC" THEN hypernetted_chain(U[i][j][p], e[i][j][p], T)
        ELSE IF name = "PY" THEN percus_yevick(U[i][j][p], e[i][j][p], T)
        ELSE reference_hypernetted_chain(U[i][j][p], e[i][j][p], T,
                 kwargs.g_r_ref[i][j][p], kwargs.e_r_ref[i][j][p],
                 kwargs.U_r_ref[i][j][p]))

\* str.upper on the closure names the model passes
upper(name) ==
    CASE name = "hnc" -> "HNC"
      [] name = "py" -> "PY"
      [] name = "rhnc" -> "RHNC"
      [] name = "msa" -> "MSA"
      [] OTHER -> name

\* _get_closure_func: the error it raises, or "none"
get_closure_error(closure_name, kwargs) ==
    IF upper(closure_name) = "RHNC" /\ kwargs.g_r_ref = None
    THEN "PyozError: missing g_r_ref"
    ELSE IF upper(closure_name) = "RHNC" /\ kwargs.e_r_ref = None
    THEN "PyozError: missing e_r_ref"
    ELSE IF upper(closure_name) = "RHNC" /\ kwargs.U_r_ref = None
    THEN "PyozError: missing U_r_ref"
    ELSE IF upper(closure_name) \notin supported_closures
    THEN "PyozError: unsupported closure"
    ELSE "none"

(* ---------------------------- linear algebra --------------------------- *)
\* the matrix A without row 1 and column c
Minor(A, c) ==
    Vec(Len(A) - 1, LAMBDA i :
        Vec(Len(A) - 1, LAMBDA j : A[i + 1][IF j < c THEN j ELSE j + 1]))

RECURSIVE Det(_)
\* determinant by expansion along the first row
Det(A) ==
    IF Len(A) = 1 THEN A[1][1]
    ELSE FSum(Vec(Len(A), LAMBDA c :
                  LET t == FMul(A[1][c], Det(Minor(A, c)))
                  IN  IF c % 2 = 1 THEN t ELSE FNeg(t)))

\* pyoz.misc.solver at one grid point: the H with A H = B (Cramer's rule);
\* a singular A gives non-finite entries
solve_point(A, B) ==
    LET n == Len(A)
        d == Det(A)
        Repl(col, b) == Vec(n, LAMBDA i :
                            Vec(n, LAMBDA j : IF j = col THEN b[i] ELSE A[i][j]))
    IN  Vec(n, LAMBDA i : Vec(n, LAMBDA j :
            FDiv(Det(Repl(i, Vec(n, LAMBDA x : B[x][j]))), d)))

\* pyoz.misc.solver(A, B): the solve at every grid point
solver(A, B) ==
    LET n == Dim(A)
        at(t, p) == Vec(n, LAMBDA i : Vec(n, LAMBDA j : t[i][j][p]))
        H == Vec(Points(A), LAMBDA p : solve_point(at(A, p), at(B, p)))
    IN  Tensor3(n, Points(A), LAMBDA i, j, p : H[p][i][j])

\* pyoz.misc.rms_normed(A, B): root of the mean squared difference
rms_normed(A, B) ==
    LET n == Dim(A)
        P == Points(A)
        sq(i, j, p) == FMul(FSub(A[i][j][p], B[i][j][p]),
                            FSub(A[i][j][p], B[i][j][p]))
        total == FSum(Vec(n * n * P, LAMBDA x :
                    sq(((x - 1) \div (n * P)) + 1,
                       (((x - 1) \div P) % n) + 1,
                       ((x - 1) % P) + 1)))
    IN  FSqrt(FDivInt(total, n * n * P))

\* pyoz.misc.picard_iteration: mix * e_new + (1 - mix) * e_old, a new array
picard_iteration(e_new, e_old, mix_param) ==
    Tensor3(Dim(e_new), Points(e_new), LAMBDA i, j, p :
        FAdd(FMul(mix_param, e_new[i][j][p]),
             FMul(FSub(FromInt(1), mix_param), e_old[i][j][p])))

(* ------------------------------- solve --------------------------------- *)
\* System._validate_solve_inputs: the error it raises, or "none". A density
\* argument is [iter |-> it is iterable, v |-> its values]; a scalar is wrapped
\* in a list of one.
validate_solve_inputs(s, rhos) ==
    IF s.U_r.shape[1] = 0 THEN "PyozError: no interactions"
    ELSE IF s.U_r.shape[1] # Len(rhos.v) THEN "PyozError: rho count"
    ELSE "none"

\* System._set_rhos: rho[i, j] = sqrt(rhos[i] * rhos[j])
set_rhos(rhos) ==
    Vec(Len(rhos), LAMBDA i : Vec(Len(rhos), LAMBDA j :
        FSqrt(FMul(rhos[i], rhos[j]))))

\* "Take us to fourier space": C_k[i, j] = constant * dst(c_r[i, j] * r)
forward(s, c_r) ==
    LET transform == Vec(Dim(c_r), LAMBDA i : Vec(Dim(c_r), LAMBDA j :
            dst(Vec(s.n_points, LAMBDA q : FMul(c_r[i][j][q], s.r[q])))))
    IN  Tensor3(Dim(c_r), s.n_points, LAMBDA i, j, p :
            FMul(FDiv(FMul(FMul(FMulInt(Pi, 2), s.rho[i][j]), s.dr), s.k[p]),
                 transform[i][j][p]))

\* E[:, :, n] = np.eye(n_components)
eye(n, P) == Tensor3(n, P, LAMBDA i, j, p : IF i = j THEN FromInt(1) ELSE 0)

\* S_k = 1 + H_k: the scalar 1 is added to every entry
structure_factor(H_k) ==
    Tensor3(Dim(H_k), Points(H_k), LAMBDA i, j, p :
        FAdd(FromInt(1), H_k[i][j][p]))

tensor_sub(X, Y) ==
    Tensor3(Dim(X), Points(X), LAMBDA i, j, p : FSub(X[i][j][p], Y[i][j][p]))

\* "Snap back to reality": e_r[i, j] = constant * idst(E_k[i, j] * k)
inverse(s, E_k) ==
    LET transform == Vec(Dim(E_k), LAMBDA i : Vec(Dim(E_k), LAMBDA j :
            idst(Vec(s.n_points, LAMBDA q : FMul(E_k[i][j][q], s.k[q])))))
    IN  Tensor3(Dim(E_k), s.n_points, LAMBDA i, j, p :
            FMul(FDiv(FDiv(FDivInt(FDiv(FDivInt(FMulInt(s.dk, s.n_points), 4),
                                        FMul(Pi, Pi)),
                                   s.n_points + 1),
                           s.r[p]),
                      s.rho[i][j]),
                 transform[i][j][p]))

\* one pass of the loop body up to the convergence test
iteration(s, f) ==
    LET c_r == closure(f.closure, U_tensor(s.U_r), f.e_r, s.T, f.kwargs)
        C_k == forward(s, c_r)
        H_k == solver(tensor_sub(eye(Dim(c_r), s.n_points), C_k), C_k)
        E_k == tensor_sub(H_k, C_k)
        e_new == inverse(s, E_k)
    IN  [c_r |-> c_r, C_k |-> C_k, H_k |-> H_k,
         S_k |-> structure_factor(H_k), E_k |-> E_k,
         e_r |-> e_new, rms_norm |-> rms_normed(e_new, f.e_r)]

\* `rms_norm < tol`
converged(rms_norm, tol) == FLt(rms_norm, tol)
\* a divergence test that forgets the infinite metric
diverged_nan_only(rms_norm) == IsNaN(rms_norm)
\* `np.isnan(rms_norm) or np.isinf(rms_norm)`
diverged(rms_norm) == IsNaN(rms_norm) \/ IsInf(rms_norm)
\* a loop test that allows one pass more
loop_test_inclusive(n_iter, max_iter) == n_iter <= max_iter
\* `while n_iter < max_iter`
loop_test(n_iter, max_iter) == n_iter < max_iter
\* `(S_k < 0).any()`
unphysical(S) ==
    \E i \in 1 .. Dim(S), j \in 1 .. Dim(S), p \in 1 .. Points(S) :
        FLt(S[i][j][p], 0)

\* the record of a solve call: how it ended (or "running"), the iterations
\* started, the closure evaluations made, the tuple returned (None unless it
\* returned) and the configuration arguments it was given
Solve(err, n_iter, n_closure, ret, args) ==
    [Call("solve", err, n_iter, n_closure, ret, FALSE) EXCEPT !.args = args]
SolveArgs(rhos, closure_name, kwargs) ==
    <<Len(rhos.v), closure_name, kwargs.g_r_ref # None, kwargs.e_r_ref # None,
      kwargs.U_r_ref # None>>

\* a solve that sets rho before it looks the closure up
solve_begin_rho_first(rhos, closure_name, initial_e_r, mix_param, tol, status_updates, max_iter, kwargs) ==
    /\ Idle
    /\ nsolves' = nsolves + 1
    /\ guess' = initial_e_r
    /\ log' = << >>
    /\ UNCHANGED <<ncalls, pot>>
    /\ IF validate_solve_inputs(sys, rhos) # "none"
       THEN /\ last' = Solve(validate_solve_inputs(sys, rhos), 0, 0, None,
                             SolveArgs(rhos, closure_name, kwargs))
            /\ UNCHANGED <<sys, pc, frame>>
       ELSE IF get_closure_error(closure_name, kwargs) # "none"
       THEN /\ last' = Solve(get_closure_error(closure_name, kwargs), 0, 0, None,
                             SolveArgs(rhos, closure_name, kwargs))
            /\ sys' = [sys EXCEPT !.rho = set_rhos(rhos.v)]
            /\ UNCHANGED <<pc, frame>>
       ELSE /\ sys' = [sys EXCEPT !.rho = set_rhos(rhos.v)]
            /\ pc' = "loop"
            /\ frame' = [closure |-> upper(closure_name), kwargs |-> kwargs,
                         mix_param |-> mix_param, tol |-> tol,
                         status_updates |-> status_updates,
                         max_iter |-> max_iter, n_iter |-> 0,
                         e_r |-> IF initial_e_r = None
                                 THEN ConstTensor(n_components(sys),
                                                  sys.n_points, 0)
                                 ELSE initial_e_r,
                         aliased |-> initial_e_r # None,
                         S_k |-> None, n_closure |-> 0]
            /\ last' = Solve("running", 0, 0, None,
                             SolveArgs(rhos, closure_name, kwargs))

\* solve, lines 84-110: validation, closure lookup, rho, the initial e_r
solve_begin(rhos, closure_name, initial_e_r, mix_param, tol, status_updates, max_iter, kwargs) ==
    /\ Idle
    /\ nsolves' = nsolves + 1
    /\ guess' = initial_e_r
    /\ log' = << >>
    /\ UNCHANGED <<ncalls, pot>>
    /\ IF validate_solve_inputs(sys, rhos) # "none"
       THEN /\ last' = Solve(validate_solve_inputs(sys, rhos), 0, 0, None,
                             SolveArgs(rhos, closure_name, kwargs))
            /\ UNCHANGED <<sys, pc, frame>>
       ELSE IF get_closure_error(closure_name, kwargs) # "none"
       THEN /\ last' = Solve(get_closure_error(closure_name, kwargs), 0, 0, None,
                             SolveArgs(rhos, closure_name, kwargs))
            /\ UNCHANGED <<sys, pc, frame>>
       ELSE /\ sys' = [sys EXCEPT !.rho = set_rhos(rhos.v)]
            /\ pc' = "loop"
            /\ frame' = [closure |-> upper(closure_name), kwargs |-> kwargs,
                         mix_param |-> mix_param, tol |-> tol,
                         status_updates |-> status_updates,
                         max_iter |-> max_iter, n_iter |-> 0,
                         e_r |-> IF initial_e_r = None
                                 THEN ConstTensor(n_components(sys),
                                                  sys.n_points, 0)
                                 ELSE initial_e_r,
                         aliased |-> initial_e_r # None,
                         S_k |-> None, n_closure |-> 0]
            /\ last' = Solve("running", 0, 0, None,
                             SolveArgs(rhos, closure_name, kwargs))

\* a loop pass that evaluates the closure on the candidate as part of the
\* convergence test
solve_iterate_folded ==
    /\ pc = "loop"
    /\ loop_test(frame.n_iter, frame.max_iter)
    /\ \E it \in {iteration(sys, frame)}, n \in {frame.n_iter + 1} :
           /\ guess' = IF frame.aliased THEN it.e_r ELSE guess
           /\ IF converged(it.rms_norm, frame.tol)
              THEN /\ pc' = "post"
                   /\ frame' = [frame EXCEPT !.n_iter = n, !.e_r = it.e_r,
                                             !.S_k = it.S_k,
                                             !.n_closure = @ + 2]
                   /\ last' = Solve("running", n, frame.n_closure + 2, None,
                                    last.args)
                   /\ UNCHANGED log
              ELSE IF diverged(it.rms_norm)
              THEN /\ pc' = "idle"
                   /\ frame' = NoFrame
                   /\ last' = Solve("PyozError: diverged", n,
                                    frame.n_closure + 1, None, last.args)
                   /\ UNCHANGED log
              ELSE /\ pc' = "loop"
                   /\ frame' = [frame EXCEPT !.n_iter = n,
                                   !.e_r = picard_iteration(it.e_r, frame.e_r,
                                                            frame.mix_param),
                                   !.aliased = FALSE,
                                   !.S_k = it.S_k,
                                   !.n_closure = @ + 1]
                   /\ last' = Solve("running", n, frame.n_closure + 1, None,
                                    last.args)
                   /\ log' = IF frame.status_updates THEN Append(log, n)
                             ELSE log
    /\ UNCHANGED <<sys, ncalls, nsolves, pot>>

\* a loop pass that mixes the candidate before the convergence test, so the
\* accepted e is mixed too
solve_iterate_mix_first ==
    /\ pc = "loop"
    /\ loop_test(frame.n_iter, frame.max_iter)
    /\ \E it \in {iteration(sys, frame)}, n \in {frame.n_iter + 1} :
           /\ guess' = IF frame.aliased THEN it.e_r ELSE guess
           /\ IF converged(it.rms_norm, frame.tol)
              THEN /\ pc' = "post"
                   /\ frame' = [frame EXCEPT !.n_iter = n,
                                   !.e_r = picard_iteration(it.e_r, frame.e_r,
                                                            frame.mix_param),
                                   !.S_k = it.S_k,
                                   !.n_closure = @ + 1]
                   /\ last' = Solve("running", n, frame.n_closure + 1, None,
                                    last.args)
                   /\ UNCHANGED log
              ELSE IF diverged(it.rms_norm)
              THEN /\ pc' = "idle"
                   /\ frame' = NoFrame
                   /\ last' = Solve("PyozError: diverged", n,
                                    frame.n_closure + 1, None, last.args)
                   /\ UNCHANGED log
              ELSE /\ pc' = "loop"
                   /\ frame' = [frame EXCEPT !.n_iter = n,
                                   !.e_r = picard_iteration(it.e_r, frame.e_r,
                                                            frame.mix_param),
                                   !.aliased = FALSE,
                                   !.S_k = it.S_k,
                                   !.n_closure = @ + 1]
                   /\ last' = Solve("running", n, frame.n_closure + 1, None,
                                    last.args)
                   /\ log' = IF frame.status_updates THEN Append(log, n)
                             ELSE log
    /\ UNCHANGED <<sys, ncalls, nsolves, pot>>

\* solve, lines 111-152: one pass of the while loop
solve_iterate ==
    /\ pc = "loop"
    /\ loop_test(frame.n_iter, frame.max_iter)
    /\ \E it \in {iteration(sys, frame)}, n \in {frame.n_iter + 1} :
           /\ guess' = IF frame.aliased THEN it.e_r ELSE guess
           /\ IF converged(it.rms_norm, frame.tol)
              THEN /\ pc' = "post"
                   /\ frame' = [frame EXCEPT !.n_iter = n, !.e_r = it.e_r,
                                             !.S_k = it.S_k,
                                             !.n_closure = @ + 1]
                   /\ last' = Solve("running", n, frame.n_closure + 1, None,
                                    last.args)
                   /\ UNCHANGED log
              ELSE IF diverged(it.rms_norm)
              THEN /\ pc' = "idle"
                   /\ frame' = NoFrame
                   /\ last' = Solve("PyozError: diverged", n,
                                    frame.n_closure + 1, None, last.args)
                   /\ UNCHANGED log
              ELSE /\ pc' = "loop"
                   /\ frame' = [frame EXCEPT !.n_iter = n,
                                   !.e_r = picard_iteration(it.e_r, frame.e_r,
                                                            frame.mix_param),
                                   !.aliased = FALSE,
                                   !.S_k = it.S_k,
                                   !.n_closure = @ + 1]
                   /\ last' = Solve("running", n, frame.n_closure + 1, None,
                                    last.args)
                   /\ log' = IF frame.status_updates THEN Append(log, n)
                             ELSE log
    /\ UNCHANGED <<sys, ncalls, nsolves, pot>>

\* solve, lines 153-154: the loop ran out without a break
solve_exhausted ==
    /\ pc = "loop"
    /\ ~loop_test(frame.n_iter, frame.max_iter)
    /\ pc' = "idle"
    /\ frame' = NoFrame
    /\ last' = Solve("PyozError: max iterations", frame.n_iter,
                     frame.n_closure, None, last.args)
    /\ UNCHANGED <<sys, guess, log, ncalls, nsolves, pot>>

\* an ending of solve that tests S_k before it stores anything
solve_finish_check_first ==
    /\ pc = "post"
    /\ \E c_r \in {closure(frame.closure, U_tensor(sys.U_r), frame.e_r, sys.T,
                             frame.kwargs)} :
       \E g_r \in {Tensor3(Dim(c_r), Points(c_r), LAMBDA i, j, p :
                      FAdd(FAdd(c_r[i][j][p], frame.e_r[i][j][p]), FromInt(1)))} :
       \E h_r \in {Tensor3(Dim(c_r), Points(c_r), LAMBDA i, j, p :
                      FSub(g_r[i][j][p], FromInt(1)))} :
           IF unphysical(frame.S_k)
           THEN /\ last' = Solve("PyozError: unphysical", frame.n_iter,
                                 frame.n_closure + 1, None, last.args)
                /\ UNCHANGED sys
           ELSE /\ sys' = [sys EXCEPT !.c_r = c_r, !.g_r = g_r, !.h_r = h_r,
                                      !.e_r = frame.e_r, !.S_k = frame.S_k]
                /\ last' = Solve("none", frame.n_iter, frame.n_closure + 1,
                                 <<g_r, c_r, frame.e_r, frame.S_k>>, last.args)
    /\ pc' = "idle"
    /\ frame' = NoFrame
    /\ UNCHANGED <<guess, log, ncalls, nsolves, pot>>

\* an ending of solve that forgets the 1 in g = c + e + 1
solve_finish_g_without_one ==
    /\ pc = "post"
    /\ \E c_r \in {closure(frame.closure, U_tensor(sys.U_r), frame.e_r, sys.T,
                             frame.kwargs)} :
       \E g_r \in {Tensor3(Dim(c_r), Points(c_r), LAMBDA i, j, p :
                      FAdd(c_r[i][j][p], frame.e_r[i][j][p]))} :
       \E h_r \in {Tensor3(Dim(c_r), Points(c_r), LAMBDA i, j, p :
                      FSub(g_r[i][j][p], FromInt(1)))} :
           /\ sys' = [sys EXCEPT !.c_r = c_r, !.g_r = g_r, !.h_r = h_r,
                                 !.e_r = frame.e_r, !.S_k = frame.S_k]
           /\ last' = IF unphysical(frame.S_k)
                      THEN Solve("PyozError: unphysical", frame.n_iter,
                                 frame.n_closure + 1, None, last.args)
                      ELSE Solve("none", frame.n_iter, frame.n_closure + 1,
                                 <<g_r, c_r, frame.e_r, frame.S_k>>, last.args)
    /\ pc' = "idle"
    /\ frame' = NoFrame
    /\ UNCHANGED <<guess, log, ncalls, nsolves, pot>>

\* solve, lines 155-171: the final closure, the stored results, the S_k check
solve_finish ==
    /\ pc = "post"
    /\ \E c_r \in {closure(frame.closure, U_tensor(sys.U_r), frame.e_r, sys.T,
                             frame.kwargs)} :
       \E g_r \in {Tensor3(Dim(c_r), Points(c_r), LAMBDA i, j, p :
                      FAdd(FAdd(c_r[i][j][p], frame.e_r[i][j][p]), FromInt(1)))} :
       \E h_r \in {Tensor3(Dim(c_r), Points(c_r), LAMBDA i, j, p :
                      FSub(g_r[i][j][p], FromInt(1)))} :
           /\ sys' = [sys EXCEPT !.c_r = c_r, !.g_r = g_r, !.h_r = h_r,
                                 !.e_r = frame.e_r, !.S_k = frame.S_k]
           /\ last' = IF unphysical(frame.S_k)
                      THEN Solve("PyozError: unphysical", frame.n_iter,
                                 frame.n_closure + 1, None, last.args)
                      ELSE Solve("none", frame.n_iter, frame.n_closure + 1,
                                 <<g_r, c_r, frame.e_r, frame.S_k>>, last.args)
    /\ pc' = "idle"
    /\ frame' = NoFrame
    /\ UNCHANGED <<guess, log, ncalls, nsolves, pot>>

(* ------------------------- the solve model ----------------------------- *)
\* potentials of the grid's length: none, repulsive (1.0), attractive (-2.0)
SolvePotentials(P) ==
    { Vec(P, LAMBDA p : v) : v \in {0, FromInt(1), -FromInt(2)} }

\* the Systems a run starts from: System(n_points=2, dr=1.0) after one
\* set_interaction(i, j, potential) call
SetUps ==
    LET new == SystemFields(2, 0, Scale, 0)
    IN  { [sys |-> [new EXCEPT !.U_r = set_interaction_body(new.U_r, i, j, v,
                                                             TRUE)],
           last |-> Call("set_interaction", "none", i, j, v, TRUE)] :
            i \in 0 .. MaxSolveIdx, j \in 0 .. MaxSolveIdx,
            v \in SolvePotentials(new.n_points) }

\* densities: 0.5 for every component, 1.0 for every component, 0 for every
\* component, 0 for the first only, a scalar
RhoInputs(n) ==
    { [iter |-> TRUE, v |-> Vec(n, LAMBDA x : Scale \div 2)],
      [iter |-> TRUE, v |-> Vec(n, LAMBDA x : Scale)],
      [iter |-> TRUE, v |-> Vec(n, LAMBDA x : 0)],
      [iter |-> TRUE, v |-> Vec(n, LAMBDA x : IF x = 1 THEN 0 ELSE Scale \div 2)],
      [iter |-> FALSE, v |-> <<Scale \div 2>>] }

NoKwargs == [g_r_ref |-> None, e_r_ref |-> None, U_r_ref |-> None]
\* the RHNC reference fields, each given or not: g_ref = 1, e_ref = 0, U_ref = 0
KwargsFor(name, n, P) ==
    IF upper(name) = "RHNC"
    THEN { [g_r_ref |-> IF g THEN ConstTensor(n, P, FromInt(1)) ELSE None,
            e_r_ref |-> IF e THEN ConstTensor(n, P, 0) ELSE None,
            U_r_ref |-> IF u THEN ConstTensor(n, P, 0) ELSE None]
           : g \in BOOLEAN, e \in BOOLEAN, u \in BOOLEAN }
    ELSE { NoKwargs }

ClosureNames == {"hnc", "PY", "rhnc", "msa"}
\* initial_e_r: absent, or the caller's array filled with -1.0
Guesses(n, P) == { None, ConstTensor(n, P, -FromInt(1)) }
MixValues == { Scale \div 2, Scale }
TolValues == { Scale \div 5, 10 * Scale }

InitSolve ==
    /\ \E u \in SetUps : sys = u.sys /\ last = u.last
    /\ pc = "idle"
    /\ pot = PotentialFields(NoRules)
    /\ frame = NoFrame
    /\ guess = None
    /\ log = << >>
    /\ ncalls = 1
    /\ nsolves = 0

\* a run makes one solve call (solve reads none of the tensors an earlier call
\* stored); the call's configuration is a valid one
NextSolve ==
    \/ /\ Idle
       /\ nsolves = 0
       /\ \E rhos \in RhoInputs(n_components(sys)), name \in ClosureNames,
             g \in Guesses(n_components(sys), sys.n_points),
             mix \in MixValues, tol \in TolValues, su \in BOOLEAN,
             mi \in 0 .. MaxIter :
             \E kw \in KwargsFor(name, n_components(sys), sys.n_points) :
                 /\ validate_solve_inputs(sys, rhos) = "none"
                 /\ get_closure_error(name, kw) = "none"
                 /\ solve_begin(rhos, name, g, mix, tol, su, mi, kw)
    \/ solve_iterate
    \/ solve_exhausted
    \/ solve_finish

SpecSolve == InitSolve /\ [][NextSolve]_vars

(* --------------------- the configuration model ------------------------- *)
\* densities of a configuration: right count, one too many, a scalar
ConfigRhos(n) ==
    { [iter |-> TRUE, v |-> Vec(n, LAMBDA x : Scale \div 2)],
      [iter |-> TRUE, v |-> Vec(n + 1, LAMBDA x : Scale \div 2)],
      [iter |-> FALSE, v |-> <<Scale \div 2>>] }

\* a run starts from a new System or from one with an interaction
InitConfig ==
    /\ \/ /\ sys = SystemFields(2, 0, Scale, 0)
          /\ last = Call("System", "none", 2, 0, <<Scale, 0>>, FALSE)
          /\ ncalls = 0
       \/ /\ \E u \in SetUps : sys = u.sys /\ last = u.last
          /\ ncalls = 1
    /\ pc = "idle"
    /\ pot = PotentialFields(NoRules)
    /\ frame = NoFrame
    /\ guess = None
    /\ log = << >>
    /\ nsolves = 0

\* solve calls of every configuration, with mix_param = 1.0, tol = 10.0 and
\* max_iter 0 or 1
NextConfig ==
    \/ /\ Idle
       /\ nsolves < MaxSolves
       /\ \E rhos \in ConfigRhos(n_components(sys)), name \in ClosureNames,
             mi \in 0 .. 1 :
             \E kw \in KwargsFor(name, Max(n_components(sys), 1), sys.n_points) :
                 solve_begin(rhos, name, None, Scale, 10 * Scale, FALSE, mi, kw)
    \/ solve_iterate
    \/ solve_exhausted
    \/ solve_finish

SpecConfig == InitConfig /\ [][NextConfig]_vars

(* ------------------- claims about solve's errors ----------------------- *)
\* a step that starts a solve call
SolveBegins == Idle /\ nsolves' = nsolves + 1
\* the errors solve raises for its configuration
ConfigErrors ==
    {"PyozError: no interactions", "PyozError: rho count",
     "PyozError: unsupported closure", "PyozError: missing g_r_ref",
     "PyozError: missing e_r_ref", "PyozError: missing U_r_ref"}
\* the configuration handed to the call that begins is a faulty one: no
\* interactions, a density count other than the component count, a closure
\* name that is none of HNC, PY, RHNC in any case, or RHNC without one of its
\* three reference arrays
BadConfig(n, a) ==
    \/ n = 0
    \/ a[1] # n
    \/ a[2] \notin {"hnc", "HNC", "py", "PY", "rhnc", "RHNC"}
    \/ a[2] \in {"rhnc", "RHNC"} /\ ~(a[3] /\ a[4] /\ a[5])

\* C4: a solve call with a faulty configuration ends at once with a
\* configuration error: no iteration is started, the closure is evaluated zero
\* times, and rho and the stored tensors (the whole System) are as they were;
\* a configuration error is raised nowhere else, and a call with a sound
\* configuration goes on to the loop.
C4_ConfigErrorsBeforeLoop ==
    [][ /\ SolveBegins =>
             IF BadConfig(sys.U_r.shape[1], last'.args)
             THEN /\ last'.err \in ConfigErrors
                  /\ last'.i = 0
                  /\ last'.j = 0
                  /\ last'.values = None
                  /\ sys' = sys
                  /\ pc' = "idle"
                  /\ frame' = NoFrame
             ELSE last'.err = "running" /\ pc' = "loop"
        /\ (last'.err \in ConfigErrors /\ last' # last) => SolveBegins
      ]_vars

\* a solve call made after results were stored fails for a missing RHNC
\* reference array
C4_Witness ==
    /\ last.op = "solve"
    /\ last.err = "PyozError: missing U_r_ref"
    /\ last.j = 0
    /\ sys.S_k # None
    /\ sys.rho # None

\* a loop pass: the while test holds
LoopPass == pc = "loop" /\ frame.n_iter < frame.max_iter

\* C5: in a loop pass whose RMS metric is NaN or infinite, and in no other,
\* solve fails with the divergence error at that iteration: the call is over
\* (no mixing, no further pass), the closure was evaluated only for the passes
\* made, nothing is returned and nothing is stored.
C5_DivergenceDetection ==
    [][ LoopPass =>
          LET m == iteration(sys, frame).rms_norm
          IN  IF IsNaN(m) \/ IsInf(m)
              THEN /\ last'.err = "PyozError: diverged"
                   /\ last'.i = frame.n_iter + 1
                   /\ last'.j = frame.n_closure + 1
                   /\ last'.values = None
                   /\ pc' = "idle"
                   /\ frame' = NoFrame
                   /\ sys' = sys
              ELSE /\ last'.err = "running"
                   /\ pc' \in {"loop", "post"}
      ]_vars

\* a call that diverged in its second pass, on an infinite or NaN metric
C5_Witness ==
    /\ last.op = "solve"
    /\ last.err = "PyozError: diverged"
    /\ last.i = 2
    /\ Idle

\* C6: solve makes at most max_iter loop passes; when the passes allowed are
\* used up without convergence (max_iter = 0 included) it fails with the
\* non-convergence error, returning and storing nothing; a pass whose metric
\* is below tol, the pass number max_iter included, ends the loop as converged.
C6_IterationBudget ==
    [][ /\ pc = "loop" => /\ frame.n_iter <= frame.max_iter
                          /\ last'.i <= frame.max_iter
        /\ (pc = "loop" /\ frame.n_iter >= frame.max_iter) =>
              /\ last'.err = "PyozError: max iterations"
              /\ last'.i = frame.n_iter
              /\ last'.values = None
              /\ sys' = sys
              /\ pc' = "idle"
        /\ (last'.err = "PyozError: max iterations" /\ last' # last) =>
              pc = "loop" /\ frame.n_iter = frame.max_iter
        /\ (LoopPass /\ FLt(iteration(sys, frame).rms_norm, frame.tol)) =>
              /\ pc' = "post"
              /\ last'.err = "running"
              /\ frame'.n_iter = frame.n_iter + 1
      ]_vars

\* a call that used up a budget of MaxIter passes
C6_Witness ==
    /\ last.op = "solve"
    /\ last.err = "PyozError: max iterations"
    /\ last.i = MaxIter
    /\ MaxIter > 0

\* some entry of S is negative
Negative(S) ==
    \E i \in 1 .. Len(S), j \in 1 .. Len(S), p \in 1 .. Len(S[1][1]) :
        IsFinite(S[i][j][p]) /\ S[i][j][p] < 0
\* every entry of S is a number that is zero or more
NonNegative(S) ==
    \A i \in 1 .. Len(S), j \in 1 .. Len(S), p \in 1 .. Len(S[1][1]) :
        IsFinite(S[i][j][p]) /\ S[i][j][p] >= 0

\* C7: when the loop has converged, solve stores c_r, g_r = c_r + e_r + 1,
\* h_r = g_r - 1, e_r and S_k of this call on the System, and then raises the
\* unphysical-result error if some entry of S_k is negative and returns
\* (g, c, e, S) otherwise; it returns in no other step, and what it returns
\* has every entry of S_k non-negative.
C7_UnphysicalDetection ==
    [][ /\ pc = "post" =>
             /\ sys'.e_r = frame.e_r
             /\ sys'.S_k = frame.S_k
             /\ sys'.c_r = closure(frame.closure, U_tensor(sys.U_r), frame.e_r,
                                   sys.T, frame.kwargs)
             /\ \A i \in 1 .. Len(frame.e_r), j \in 1 .. Len(frame.e_r),
                   p \in 1 .. sys.n_points :
                   /\ sys'.g_r[i][j][p] =
                        FAdd(FAdd(sys'.c_r[i][j][p], frame.e_r[i][j][p]),
                             FromInt(1))
                   /\ sys'.h_r[i][j][p] = FSub(sys'.g_r[i][j][p], FromInt(1))
             /\ IF Negative(frame.S_k)
                THEN /\ last'.err = "PyozError: unphysical"
                     /\ last'.values = None
                ELSE /\ last'.err = "none"
                     /\ last'.values = <<sys'.g_r, sys'.c_r, sys'.e_r, sys'.S_k>>
        /\ (last'.op = "solve" /\ last'.err = "none" /\ last' # last) =>
             pc = "post" /\ NonNegative(frame.S_k)
        /\ (last'.err = "PyozError: unphysical" /\ last' # last) => pc = "post"
      ]_vars

\* a call that converged to a negative structure factor: the error is raised
\* and the tensors are on the System
C7_Witness ==
    /\ last.op = "solve"
    /\ last.err = "PyozError: unphysical"
    /\ sys.S_k # None
    /\ Negative(sys.S_k)
    /\ sys.c_r # None /\ sys.g_r # None /\ sys.h_r # None /\ sys.e_r # None

(* ------------------ claims about solve's results ----------------------- *)
\* C8: in every loop pass, at every grid index, the structure factor is the
\* identity matrix plus H: S[i,j] = H[i,j] + 1 on the diagonal and
\* S[i,j] = H[i,j] off it; and E = H - C.
C8_StructureFactor ==
    LoopPass =>
        LET it == iteration(sys, frame)
        IN  \A i \in 1 .. Len(it.H_k), j \in 1 .. Len(it.H_k),
               p \in 1 .. sys.n_points :
               /\ it.S_k[i][j][p] = IF i = j
                                    THEN FAdd(it.H_k[i][j][p], FromInt(1))
                                    ELSE it.H_k[i][j][p]
               /\ it.E_k[i][j][p] = FSub(it.H_k[i][j][p], it.C_k[i][j][p])

\* every stored potential value is zero
ZeroPotential == \A x \in 1 .. Len(sys.U_r.data) : sys.U_r.data[x] = 0
\* t is the constant v at every pair and grid point
Everywhere(t, v) ==
    /\ t # None
    /\ \A i \in 1 .. Len(t), j \in 1 .. Len(t), p \in 1 .. Len(t[1][1]) :
          t[i][j][p] = v

\* C10: with every potential value zero and the default initial guess, a
\* solve call that is allowed a loop pass succeeds whatever the densities, and
\* returns c = 0, g = 1 and S = 1 everywhere.
C10_IdealGasLimit ==
    (/\ last.op = "solve"
     /\ last.err # "running"
     /\ last.i >= 1
     /\ ZeroPotential
     /\ guess = None)
    => /\ last.err = "none"
       /\ Everywhere(last.values[2], 0)
       /\ Everywhere(last.values[1], FromInt(1))
       /\ Everywhere(last.values[4], FromInt(1))

(* ------------------- claims about solve's sequencing ------------------- *)
\* C11: every loop pass evaluates the closure once, on the e it starts with;
\* whether the pass converges is decided by the metric between the candidate
\* e and that e alone, with no further closure evaluation; a converged call
\* evaluates the closure once more after the loop, on the converged e, so a
\* call converging at pass n makes n + 1 evaluations; a call that diverges or
\* uses up its budget makes none after the loop.
C11_ClosureSequencing ==
    [][ /\ LoopPass =>
             /\ last'.j = frame.n_closure + 1
             /\ last'.j = last'.i
             /\ (pc' = "post") <=>
                   FLt(rms_normed(iteration(sys, frame).e_r, frame.e_r),
                       frame.tol)
        /\ pc = "post" =>
             /\ last'.j = frame.n_closure + 1
             /\ last'.j = frame.n_iter + 1
             /\ sys'.c_r = closure(frame.closure, U_tensor(sys.U_r), frame.e_r,
                                   sys.T, frame.kwargs)
        /\ (pc = "loop" /\ ~LoopPass) => last'.j = frame.n_closure
        /\ (last'.err \in {"PyozError: diverged", "PyozError: max iterations"}
            /\ last' # last) => last'.j = last'.i
      ]_vars

\* a call that converged at its second pass and evaluated the closure 3 times
C11_Witness ==
    /\ last.op = "solve"
    /\ last.err = "none"
    /\ last.i = 2
    /\ last.j = 3

\* the Picard mix of a candidate and the previous iterate, entry by entry
Mixed(e_new, e_old, mix) ==
    [i \in 1 .. Len(e_new) |-> [j \in 1 .. Len(e_new) |->
        [p \in 1 .. Len(e_new[1][1]) |->
            FAdd(FMul(mix, e_new[i][j][p]),
                 FMul(FSub(FromInt(1), mix), e_old[i][j][p]))]]]

\* C12: a loop pass whose metric is finite and not below tol carries the
\* Picard mix of its candidate and the previous iterate into the next pass; a
\* pass whose metric is below tol carries the candidate itself, unmixed, and
\* that candidate is the e solve stores and returns.
C12_MixingRule ==
    [][ /\ LoopPass =>
             LET it == iteration(sys, frame)
             IN  /\ (IsFinite(it.rms_norm) /\ ~(it.rms_norm < frame.tol)) =>
                       /\ pc' = "loop"
                       /\ frame'.e_r = Mixed(it.e_r, frame.e_r, frame.mix_param)
                 /\ (IsFinite(it.rms_norm) /\ it.rms_norm < frame.tol) =>
                       /\ pc' = "post"
                       /\ frame'.e_r = it.e_r
        /\ pc = "post" =>
             /\ sys'.e_r = frame.e_r
             /\ last'.err = "none" => last'.values[3] = frame.e_r
      ]_vars

\* a call with mix_param below 1 that mixed after its first pass and accepted
\* the candidate of its second, which is not the previous iterate
C12_Witness ==
    /\ pc = "post"
    /\ frame.n_iter = 2
    /\ frame.mix_param < Scale
    /\ \E i \in 1 .. Len(frame.e_r), j \in 1 .. Len(frame.e_r) :
          frame.e_r[i][j][1] # 0

\* C13: with status updates enabled, the per-iteration records emitted so
\* far are one for every loop pass made, in order and carrying the pass
\* number: a call that has converged at pass n has emitted n records, the
\* last with index n.
C13_ProgressRecords ==
    (pc \in {"loop", "post"} /\ frame.status_updates) =>
        /\ Len(log) = frame.n_iter
        /\ \A x \in 1 .. Len(log) : log[x] = x

(* --------------- claims about the System across calls ------------------ *)
\* the step ends a solve call that got as far as the loop
SolveEnds == pc \in {"loop", "post"} /\ pc' = "idle"

\* C14: when a solve call that got past its input validation ends, rho is
\* the matrix of that call's densities and each of c_r, e_r, g_r, h_r, S_k is
\* either unset or a tensor that call computed: nothing an earlier solve call
\* stored is still there.
C14_NoCarryOver ==
    [][ SolveEnds =>
          /\ sys'.rho = sys.rho
          /\ IF pc = "post"
             THEN /\ sys'.e_r = frame.e_r
                  /\ sys'.S_k = frame.S_k
                  /\ sys'.c_r = closure(frame.closure, U_tensor(sys.U_r),
                                        frame.e_r, sys.T, frame.kwargs)
             ELSE /\ sys'.c_r = None
                  /\ sys'.e_r = None
                  /\ sys'.g_r = None
                  /\ sys'.h_r = None
                  /\ sys'.S_k = None
      ]_vars

\* t[i][j][p] = f(i, j, p) at every pair and grid point of the tensor t
Pointwise(t, f(_, _, _)) ==
    /\ t # None
    /\ \A i \in 1 .. Len(t), j \in 1 .. Len(t), p \in 1 .. Len(t[1][1]) :
          t[i][j][p] = f(i, j, p)

\* C16: the pass that converges hands its candidate e and its structure
\* factor to the end of solve; there c is the closure applied to that e, and
\* what is stored (and, on success, returned) is that c, that e, g = c + e + 1,
\* h = g - 1 and that structure factor, whether the call then succeeds or
\* fails as unphysical.
C16_ResultRelations ==
    [][ /\ (LoopPass /\ pc' = "post") =>
             /\ frame'.e_r = iteration(sys, frame).e_r
             /\ frame'.S_k = iteration(sys, frame).S_k
        /\ pc = "post" =>
             /\ last'.err \in {"none", "PyozError: unphysical"}
             /\ sys'.e_r = frame.e_r
             /\ sys'.S_k = frame.S_k
             /\ sys'.c_r = closure(frame.closure, U_tensor(sys.U_r), sys'.e_r,
                                   sys.T, frame.kwargs)
             /\ Pointwise(sys'.g_r, LAMBDA i, j, p :
                   FAdd(FAdd(sys'.c_r[i][j][p], sys'.e_r[i][j][p]), FromInt(1)))
             /\ Pointwise(sys'.h_r, LAMBDA i, j, p :
                   FSub(sys'.g_r[i][j][p], FromInt(1)))
             /\ last'.err = "none" =>
                   /\ last'.values[1] = sys'.g_r
                   /\ last'.values[2] = sys'.c_r
                   /\ last'.values[3] = sys'.e_r
                   /\ last'.values[4] = sys'.S_k
      ]_vars

\* a call that returned after two passes with an e that is not zero
C16_Witness ==
    /\ last.op = "solve"
    /\ last.err = "none"
    /\ last.i = 2
    /\ sys.g_r # None
    /\ \E i \in 1 .. Len(sys.e_r), j \in 1 .. Len(sys.e_r) :
          sys.e_r[i][j][1] # 0

\* C17: no step of a solve call changes the contents of the array the caller
\* handed in as initial_e_r, and the e the call stores is never that array.
C17_InitialGuessUntouched ==
    [][ /\ pc # "idle" => guess' = guess
        /\ pc = "post" => ~frame.aliased
      ]_vars

(* ------------------------ the call model ------------------------------- *)
\* potentials of the call model: none, repulsive (1.0)
CallPotentials(P) == { Vec(P, LAMBDA p : v) : v \in {0, FromInt(1)} }

InitCalls ==
    /\ sys = SystemFields(2, 0, Scale, 0)
    /\ last = Call("System", "none", 2, 0, <<Scale, 0>>, FALSE)
    /\ pc = "idle"
    /\ pot = PotentialFields(NoRules)
    /\ frame = NoFrame
    /\ guess = None
    /\ log = << >>
    /\ ncalls = 0
    /\ nsolves = 0

\* set_interaction, remove_interaction and solve calls in any order; the solve
\* calls are solve(0.5 per component, 'hnc', mix_param=1.0, tol=10.0) with
\* max_iter 0 or 1
NextCalls ==
    \/ \E i \in 0 .. MaxSolveIdx, j \in 0 .. MaxSolveIdx,
          v \in CallPotentials(sys.n_points) : set_interaction(i, j, v, TRUE)
    \/ \E i \in 0 .. MaxSolveIdx : remove_interaction(i, i)
    \/ /\ Idle
       /\ nsolves < MaxSolves
       /\ \E mi \in 0 .. 1 :
             solve_begin([iter |-> TRUE,
                          v |-> Vec(n_components(sys), LAMBDA x : Scale \div 2)],
                         "hnc", None, Scale, 10 * Scale, FALSE, mi, NoKwargs)
    \/ solve_iterate
    \/ solve_exhausted
    \/ solve_finish

SpecCalls == InitCalls /\ [][NextCalls]_vars

\* C15: no call lowers the component count; remove_interaction always fails
\* as not implemented and leaves the System as it was; no step of a solve
\* call changes U_r.
C15_ComponentCountMonotone ==
    [][ /\ sys'.U_r.shape[1] >= sys.U_r.shape[1]
        /\ (ncalls' = ncalls + 1 /\ last'.op = "remove_interaction") =>
              /\ last'.err = "NotImplementedError"
              /\ sys' = sys
        /\ (nsolves' = nsolves + 1 \/ pc # "idle") => sys'.U_r = sys.U_r
      ]_vars

\* a remove_interaction call on a System of two components, after a solve call
C15_Witness ==
    /\ last.op = "remove_interaction"
    /\ sys.U_r.shape[1] >= 2
    /\ nsolves >= 1
    /\ sys.rho # None

(* ----------------------- Potential: operations ------------------------ *)
arithmetic(a, b) == FMul(Scale \div 2, FAdd(a, b))
geometric(a, b) == FSqrt(FMul(a, b))
\* mixing_functions[rule]
mixing_functions(rule, a, b) ==
    IF rule = "arithmetic" THEN arithmetic(a, b) ELSE geometric(a, b)

\* Potential._component_idx (1-based)
component_idx(P, component) ==
    CHOOSE i \in 1 .. Len(P.index) : P.index[i] = component
\* Potential._parameter_idx (1-based)
parameter_idx(parm) ==
    CHOOSE n \in 1 .. n_parameters : ParameterNames[n] = parm
\* the value a keyword dict (a sequence of <<name, value>>) gives a parameter
kwarg(parameters, parm) ==
    LET x == CHOOSE y \in 1 .. Len(parameters) : parameters[y][1] = parm
    IN  parameters[x][2]
has_kwarg(parameters, parm) ==
    \E y \in 1 .. Len(parameters) : parameters[y][1] = parm

\* Potential._expand_parm_ij: zeros of the new extent, old entries copied
expand_parm_ij(P) ==
    LET old_ij == P.parm_ij
        n == Len(P.index)
    IN  [P EXCEPT !.parm_ij =
           Vec(n_parameters, LAMBDA q : Vec(n, LAMBDA i : Vec(n, LAMBDA j :
               IF i <= Len(old_ij[q]) /\ j <= Len(old_ij[q])
               THEN old_ij[q][i][j] ELSE 0)))]

\* Potential._apply_mixing_rules(parm, parm_idx)
apply_mixing_rules(P, parm_idx) ==
    IF P.rules[parm_idx] = "" THEN P
    ELSE [P EXCEPT !.parm_ij[parm_idx] =
            Vec(Len(P.index), LAMBDA i : Vec(Len(P.index), LAMBDA j :
                IF i # j
                THEN mixing_functions(P.rules[parm_idx],
                                      P.parameters[i][parm_idx],
                                      P.parameters[j][parm_idx])
                ELSE P.parm_ij[parm_idx][i][j]))]

\* the parameter checks of Potential.add_component
wrong_parameters(parameters) ==
    \/ Len(parameters) # n_parameters
    \/ \E y \in 1 .. Len(parameters) :
          \A n \in 1 .. n_parameters : parameters[y][1] # ParameterNames[n]

\* one turn of the `for parm, value in parameters.items()` loop
add_component_parm(P, component_idx_, parm_idx, value) ==
    LET set == [P EXCEPT !.parm_ij[parm_idx][component_idx_][component_idx_] =
                    value]
    IN  IF (\E n \in 1 .. n_parameters : P.rules[n] # "") /\ Len(P.index) > 1
        THEN apply_mixing_rules(set, parm_idx)
        ELSE set

RECURSIVE add_component_loop(_, _, _, _)
add_component_loop(P, component_idx_, parameters, y) ==
    IF y > Len(parameters) THEN P
    ELSE add_component_loop(
             add_component_parm(P, component_idx_,
                                parameter_idx(parameters[y][1]),
                                parameters[y][2]),
             component_idx_, parameters, y + 1)

\* the body of Potential.add_component after the parameter checks
add_component_body(P, component, parameters) ==
    LET row == Vec(n_parameters, LAMBDA n : kwarg(parameters, ParameterNames[n]))
        known == \E i \in 1 .. Len(P.index) : P.index[i] = component
        located == IF known
                   THEN [P EXCEPT !.parameters[component_idx(P, component)] = row]
                   ELSE [P EXCEPT !.index = Append(@, component),
                                  !.parameters = Append(@, row)]
        expanded == IF Len(located.index) > 1 THEN expand_parm_ij(located)
                    ELSE located
    IN  add_component_loop(expanded, component_idx(expanded, component),
                           parameters, 1)

\* Potential.add_component
add_component(component, parameters) ==
    /\ Idle
    /\ ncalls < MaxPotCalls
    /\ ncalls' = ncalls + 1
    /\ IF wrong_parameters(parameters)
       THEN /\ last' = Call("add_component", "PyozError: parameters",
                            component, 0, << >>, FALSE)
            /\ UNCHANGED pot
       ELSE /\ pot' = add_component_body(pot, component, parameters)
            /\ last' = Call("add_component", "none", component, 0, << >>, FALSE)
    /\ UNCHANGED <<sys, solve_vars>>

RECURSIVE add_binary_interaction_loop(_, _, _, _, _)
add_binary_interaction_loop(P, comp1_idx, comp2_idx, parameters, y) ==
    IF y > Len(parameters) THEN P
    ELSE add_binary_interaction_loop(
             [P EXCEPT
                !.parm_ij[parameter_idx(parameters[y][1])][comp1_idx][comp2_idx]
                    = parameters[y][2],
                !.parm_ij[parameter_idx(parameters[y][1])][comp2_idx][comp1_idx]
                    = parameters[y][2]],
             comp1_idx, comp2_idx, parameters, y + 1)

\* Potential.add_binary_interaction
add_binary_interaction(comp1, comp2, parameters) ==
    /\ Idle
    /\ ncalls < MaxPotCalls
    /\ ncalls' = ncalls + 1
    /\ IF \E c \in {comp1, comp2} :
             \A i \in 1 .. Len(pot.index) : pot.index[i] # c
       THEN /\ last' = Call("add_binary_interaction", "PyozError: components",
                            comp1, comp2, << >>, FALSE)
            /\ UNCHANGED pot
       ELSE /\ pot' = add_binary_interaction_loop(pot,
                          component_idx(pot, comp1), component_idx(pot, comp2),
                          parameters, 1)
            /\ last' = [Call("add_binary_interaction", "none", comp1, comp2,
                             << >>, FALSE) EXCEPT !.args = parameters]
    /\ UNCHANGED <<sys, solve_vars>>

(* ------------------------ Model of a potential ------------------------- *)
\* LennardJones(system, **mixing_rules): no rule, a rule for eps only, a rule
\* for each parameter
MixingRules ==
    {NoRules, <<"arithmetic", "">>, <<"geometric", "arithmetic">>}
\* keyword arguments of add_component: eps=1.0, sig=1.0 and sig=3.0, eps=2.0
ComponentParameters ==
    {<<<<"eps", Scale>>, <<"sig", Scale>>>>,
     <<<<"sig", 3 * Scale>>, <<"eps", 2 * Scale>>>>}
\* keyword arguments of add_binary_interaction: eps=3.0
CrossParameters == <<<<"eps", 3 * Scale>>>>
\* ... and sig=3.0, eps=3.0
CrossParametersBoth == <<<<"sig", 3 * Scale>>, <<"eps", 3 * Scale>>>>

InitPot ==
    /\ sys = SystemFields(2, 0, Scale, 0)
    /\ last = Call("LennardJones", "none", 0, 0, << >>, FALSE)
    /\ pc = "idle"
    /\ \E rules \in MixingRules : pot = PotentialFields(rules)
    /\ frame = NoFrame
    /\ guess = None
    /\ log = << >>
    /\ ncalls = 0
    /\ nsolves = 0

\* add_component and add_binary_interaction calls in any order, one of the
\* add_component calls with a parameter missing
NextPot ==
    \/ \E component \in 1 .. MaxComponents, parameters \in ComponentParameters :
          add_component(component, parameters)
    \/ add_component(1, CrossParameters)
    \/ \E comp1 \in 1 .. MaxComponents, comp2 \in 1 .. MaxComponents :
          comp1 < comp2 /\ add_binary_interaction(comp1, comp2, CrossParameters)
    \/ add_binary_interaction(2, 1, CrossParametersBoth)

SpecPot == InitPot /\ [][NextPot]_vars

\* C18: for a potential with a mixing rule on parameter p, once
\* add_binary_interaction(comp1, comp2, p=v) has set the two cross entries of
\* the pair to v, an add_component call for another component leaves both
\* entries equal to v.
C18_CrossParametersSurvive ==
    [][ ( /\ last.op = "add_binary_interaction" /\ last.err = "none"
          /\ last'.op = "add_component" /\ last'.err = "none"
          /\ ncalls' = ncalls + 1
          /\ last'.i \notin {last.i, last.j} )
        => \A n \in 1 .. n_parameters :
             (pot.rules[n] # "" /\ has_kwarg(last.args, ParameterNames[n]))
             => LET i == component_idx(pot, last.i)
                    j == component_idx(pot, last.j)
                    v == kwarg(last.args, ParameterNames[n])
                IN  /\ pot.parm_ij[n][i][j] = v /\ pot.parm_ij[n][j][i] = v
                    /\ pot'.parm_ij[n][i][j] = v /\ pot'.parm_ij[n][j][i] = v
      ]_vars

====
